---- MODULE Spec2Model ----
(***************************************************************************)
(* Model of monasca/v2/reference/metrics.py: the Metrics resource of the   *)
(* monasca API (POST metrics, list metrics / names / measurements /        *)
(* statistics).                                                            *)
(***************************************************************************)
EXTENDS Integers, Sequences, FiniteSets, TLC

(***************************************************************************)
(* Python values.  A value is described by its class and, for text, its    *)
(* length; a dict additionally by its items in iteration order.            *)
(***************************************************************************)
PyVal(t, n) == [type |-> t, len |-> n, items |-> <<>>]

PyDict(kvs) == [type |-> "dict", len |-> Len(kvs), items |-> kvs]

\* the key is not in the dict
Missing == PyVal("<missing>", 0)

PyNone == PyVal("NoneType", 0)

\* isinstance(v, classes): bool is a subclass of int in Python
Subclasses(c) == IF c = "int" THEN {"int", "bool"} ELSE {c}

isinstance(v, classes) == \E c \in classes : v.type \in Subclasses(c)

\* exceptions and the message attribute Python 2 gives them
NoExc == [type |-> "none", message |-> ""]

AssertionError == [type |-> "AssertionError", message |-> ""]

KeyError(k) == [type |-> "KeyError", message |-> k]

TypeError == [type |-> "TypeError", message |-> "<type error text>"]

MaxNameLen == 64

MaxDimLen == 255

TextClasses == {"str", "unicode"}

TimestampClasses == {"int", "float"}

ValueClasses == {"int", "long", "float", "complex"}

\* the body of "for d in metric['dimensions']", from item i on
RECURSIVE ValidateDimensions(_, _)
ValidateDimensions(items, i) ==
  IF i > Len(items) THEN NoExc
  ELSE IF ~isinstance(items[i][1], TextClasses) THEN AssertionError
  ELSE IF ~(items[i][1].len <= MaxDimLen) THEN AssertionError
  ELSE IF ~isinstance(items[i][2], TextClasses) THEN AssertionError
  ELSE IF ~(items[i][2].len <= MaxDimLen) THEN AssertionError
  ELSE ValidateDimensions(items, i + 1)

\* metric is a dict or a string (subscripting a string by 'name' raises
\* TypeError); metric['dimensions'] is a dict or null (iterating null raises
\* TypeError)
_validate_single_metric(metric) ==
  IF metric.type # "dict" THEN TypeError
  ELSE IF metric.name = Missing THEN KeyError("name")
  ELSE IF ~isinstance(metric.name, TextClasses) THEN AssertionError
  ELSE IF ~(metric.name.len <= MaxNameLen) THEN AssertionError
  ELSE IF metric.timestamp = Missing THEN KeyError("timestamp")
  ELSE IF ~isinstance(metric.timestamp, TimestampClasses) THEN AssertionError
  ELSE IF metric.value = Missing THEN KeyError("value")
  ELSE IF ~isinstance(metric.value, ValueClasses) THEN AssertionError
  ELSE IF metric.dimensions = Missing THEN NoExc
  ELSE IF metric.dimensions.type = "NoneType" THEN TypeError
  ELSE ValidateDimensions(metric.dimensions.items, 1)

\* a request body: one metric object, or a list of them
Single(m) == [islist |-> FALSE, elems |-> <<m>>]

List(ms) == [islist |-> TRUE, elems |-> ms]

\* the first exception raised by the loop over the list, from element i on
RECURSIVE ValidateFrom(_, _)
ValidateFrom(elems, i) ==
  IF i > Len(elems) THEN NoExc
  ELSE IF _validate_single_metric(elems[i]) # NoExc
       THEN _validate_single_metric(elems[i])
       ELSE ValidateFrom(elems, i + 1)

HTTPBadRequest(description) ==
  [status |-> 400, title |-> "Bad request", description |-> description,
   retry_after |-> 0]

NoError == [status |-> 0, title |-> "", description |-> "", retry_after |-> 0]

\* the HTTP error raised by _validate_metrics, NoError when it returns
_validate_metrics(metrics) ==
  LET ex == IF metrics.islist THEN ValidateFrom(metrics.elems, 1)
            ELSE _validate_single_metric(metrics.elems[1])
  IN IF ex = NoExc THEN NoError ELSE HTTPBadRequest(ex.message)


(***************************************************************************)
(* HTTP errors (falcon) and the configuration read at construction.        *)
(***************************************************************************)
RetryAfter == 60

HTTPUnauthorized ==
  [status |-> 401, title |-> "Unauthorized", description |-> "roles",
   retry_after |-> 0]

HTTPForbidden ==
  [status |-> 403, title |-> "Forbidden", description |-> "tenant_id",
   retry_after |-> 0]

HTTPServiceUnavailable(description, retry_after) ==
  [status |-> 503, title |-> "Service unavailable",
   description |-> description, retry_after |-> retry_after]

\* an exception that is no falcon.HTTPError leaves the handler uncaught
Uncaught(ex) ==
  [status |-> 500, title |-> "uncaught " \o ex.type, description |-> "",
   retry_after |-> 0]

MessageQueueException ==
  [type |-> "MessageQueueException", message |-> "<queue failure detail>"]

RepositoryException ==
  [type |-> "RepositoryException", message |-> "<repository internal detail>"]

PaginateException ==
  [type |-> "Exception", message |-> "<paginate internal detail>"]

OtherException == [type |-> "Exception", message |-> "<unexpected detail>"]

\* cfg.CONF as read by __init__
CONF ==
  [region |-> "region-a",
   default_authorized_roles |-> {"user"},
   agent_authorized_roles |-> {"agent"},
   delegate_authorized_roles |-> {"delegate"}]

\* the fields of self after Metrics.__init__
__init__ ==
  [_region |-> CONF.region,
   _default_authorized_roles |-> CONF.default_authorized_roles,
   _delegate_authorized_roles |-> CONF.delegate_authorized_roles,
   _post_metrics_authorized_roles |->
       CONF.default_authorized_roles \cup CONF.agent_authorized_roles]

(***************************************************************************)
(* Collaborators outside this file: monasca.v2.reference.helpers,          *)
(* resource.resource_try_catch_block and the metrics transform.  Each      *)
(* returns Ret(v) or raises an HTTP error.                                 *)
(***************************************************************************)
Ret(v) == [val |-> v, err |-> NoError]

Raise(e) == [val |-> <<>>, err |-> e]

validate_json_content_type(req) ==
  IF req.content_type_json THEN Ret(<<>>)
  ELSE Raise(HTTPBadRequest("Content-Type"))

validate_authorization(req, authorized_roles) ==
  IF req.roles \cap authorized_roles # {} THEN Ret(<<>>)
  ELSE Raise(HTTPUnauthorized)

read_http_resource(req) ==
  IF req.body_wellformed THEN Ret(req.body) ELSE Raise(HTTPBadRequest("body"))

get_tenant_id(req) == Ret(req.x_tenant_id)

get_x_tenant_or_tenant_id(req, delegate_authorized_roles) ==
  IF req.q_tenant_id = <<>> THEN get_tenant_id(req)
  ELSE IF req.roles \cap delegate_authorized_roles # {}
       THEN Ret(req.q_tenant_id[1])
       ELSE Raise(HTTPForbidden)

get_query_name(req, required) ==
  IF required /\ req.name = "absent" THEN Raise(HTTPBadRequest("name"))
  ELSE Ret(req.name)

validate_query_name(name) ==
  IF name = "invalid" THEN Raise(HTTPBadRequest("name")) ELSE Ret(<<>>)

get_query_dimensions(req) == Ret(req.dimensions)

validate_query_dimensions(dimensions) ==
  IF dimensions = "invalid" THEN Raise(HTTPBadRequest("dimensions"))
  ELSE Ret(<<>>)

get_query_starttime_timestamp(req) ==
  IF req.start_time = "valid" THEN Ret(req.start_time)
  ELSE Raise(HTTPBadRequest("start_time"))

get_query_endtime_timestamp(req, required) ==
  IF req.end_time = "invalid" \/ (required /\ req.end_time = "absent")
  THEN Raise(HTTPBadRequest("end_time"))
  ELSE Ret(req.end_time)

get_query_statistics(req) ==
  IF req.statistics = "valid" THEN Ret(req.statistics)
  ELSE Raise(HTTPBadRequest("statistics"))

get_query_period(req) ==
  IF req.period = "valid" THEN Ret(req.period)
  ELSE Raise(HTTPBadRequest("period"))

\* the configured default page size
DefaultLimit == 2

get_limit(req) ==
  IF req.limit = <<>> THEN Ret(DefaultLimit)
  ELSE IF req.limit[1] > 0 THEN Ret(req.limit[1])
  ELSE Raise(HTTPBadRequest("limit"))

str_2_bool(s) ==
  IF s \in {"true", "false"} THEN Ret(s = "true")
  ELSE Raise(HTTPBadRequest("merge_metrics"))

\* the transform created by metrics_transform_factory
_metrics_transform(metrics, tenant_id, region) ==
  [i \in 1..Len(metrics.elems) |->
     [metric |-> metrics.elems[i], tenant_id |-> tenant_id, region |-> region]]

\* helpers.paginate / paginate_measurement / paginate_statistics
paginate(result, req_uri, limit) ==
  [elements |-> result,
   next |-> IF Len(result) = limit
            THEN <<[uri |-> req_uri, offset |-> result[Len(result)]]>>
            ELSE <<>>]

dumpit_utf8(result) == [encoding |-> "utf8", json |-> result]

\* the decorator: r is what the decorated body did, Ret(v) or an exception
resource_try_catch_block(r) ==
  IF r.exc = NoExc THEN Ret(r.val)
  ELSE Raise(HTTPServiceUnavailable("", 0))

(***************************************************************************)
(* The private methods of Metrics.  env is what the collaborator does in   *)
(* this call: the queue client's outcome, or the rows the repository has   *)
(* and whether it (or the paginator) raises.                               *)
(***************************************************************************)
NoEnv == [kind |-> "none", n |-> 0]

Min(a, b) == IF a <= b THEN a ELSE b

\* the repository returns at most limit rows of the n it has
RepoResult(n, limit) == [i \in 1..Min(n, limit) |-> i]

\* a send that is tried again when the queue client fails
_send_metrics_retry(metrics, env) ==
  [sent |-> IF env.kind = "ok" THEN <<metrics>> ELSE <<metrics, metrics>>,
   err |-> IF env.kind = "ok" THEN NoError
           ELSE IF env.kind = "MessageQueueException"
           THEN HTTPServiceUnavailable(MessageQueueException.message,
                                       RetryAfter)
           ELSE Uncaught(OtherException)]

_send_metrics(metrics, env) ==
  [sent |-> <<metrics>>,
   err |-> IF env.kind = "ok" THEN NoError
           ELSE IF env.kind = "MessageQueueException"
           THEN HTTPServiceUnavailable(MessageQueueException.message,
                                       RetryAfter)
           ELSE Uncaught(OtherException)]

\* the body shared by the four decorated list methods: one repository call
\* with (offset, limit), then one paginator call with pag_limit
ListBody(method, paginator, self, tenant_id, args, req_uri, offset, limit, pag_limit, env) ==
  LET call == [method |-> method, tenant_id |-> tenant_id,
               region |-> self._region, args |-> args, offset |-> offset,
               limit |-> limit]
      result == RepoResult(env.n, limit)
  IN IF env.kind = "repo_raise"
     THEN [calls |-> <<call>>, pags |-> <<>>,
           r |-> [val |-> <<>>, exc |-> RepositoryException]]
     ELSE IF env.kind = "paginate_raise"
     THEN [calls |-> <<call>>,
           pags |-> <<[paginator |-> paginator, n |-> Len(result),
                       limit |-> pag_limit]>>,
           r |-> [val |-> <<>>, exc |-> PaginateException]]
     ELSE [calls |-> <<call>>,
           pags |-> <<[paginator |-> paginator, n |-> Len(result),
                       limit |-> pag_limit]>>,
           r |-> [val |-> <<paginate(result, req_uri, pag_limit)>>,
                  exc |-> NoExc]]

Decorated(b) ==
  [calls |-> b.calls, pags |-> b.pags, out |-> resource_try_catch_block(b.r)]

\* the paginator given another limit than the repository
_list_metrics_other_limit(self, tenant_id, name, dimensions, req_uri, offset, limit, env) ==
  Decorated(ListBody("list_metrics", "paginate", self, tenant_id,
                     <<name, dimensions>>, req_uri, offset, limit, limit + 1,
                     env))

_list_metrics(self, tenant_id, name, dimensions, req_uri, offset, limit, env) ==
  Decorated(ListBody("list_metrics", "paginate", self, tenant_id,
                     <<name, dimensions>>, req_uri, offset, limit, limit, env))

_list_metric_names(self, tenant_id, dimensions, req_uri, offset, limit, env) ==
  Decorated(ListBody("list_metric_names", "paginate", self, tenant_id,
                     <<dimensions>>, req_uri, offset, limit, limit, env))

_measurement_list(self, tenant_id, name, dimensions, start_timestamp, end_timestamp, req_uri, offset, limit, merge_metrics_flag, env) ==
  Decorated(ListBody("measurement_list", "paginate_measurement", self,
                     tenant_id,
                     <<name, dimensions, start_timestamp, end_timestamp,
                       merge_metrics_flag>>,
                     req_uri, offset, limit, limit, env))

_metric_statistics(self, tenant_id, name, dimensions, start_timestamp, end_timestamp, statistics, period, req_uri, offset, limit, merge_metrics_flag, env) ==
  Decorated(ListBody("metrics_statistics", "paginate_statistics", self,
                     tenant_id,
                     <<name, dimensions, start_timestamp, end_timestamp,
                       statistics, period, merge_metrics_flag>>,
                     req_uri, offset, limit, limit, env))

\* merge_metrics_flag_str is <<>> for Python's False, <<s>> for the string s
_get_boolean_merge_metrics_flag(merge_metrics_flag_str) ==
  IF merge_metrics_flag_str # <<>> THEN str_2_bool(merge_metrics_flag_str[1])
  ELSE Ret(FALSE)

(***************************************************************************)
(* The five handlers.  A handler is the sequence of its statements; a      *)
(* statement that raises ends the handler.                                 *)
(***************************************************************************)
S(call, arg) == [call |-> call, arg |-> arg]

\* the batch sent before it is validated
do_post_metrics_send_first ==
  << S("helpers.validate_json_content_type", ""),
     S("helpers.validate_authorization", "_post_metrics_authorized_roles"),
     S("helpers.read_http_resource", ""),
     S("helpers.get_x_tenant_or_tenant_id", "_delegate_authorized_roles"),
     S("_metrics_transform", ""),
     S("_send_metrics", ""),
     S("_validate_metrics", ""),
     S("res.status", "204") >>

\* authorization checked before the content type
do_post_metrics_auth_first ==
  << S("helpers.validate_authorization", "_post_metrics_authorized_roles"),
     S("helpers.validate_json_content_type", ""),
     S("helpers.read_http_resource", ""),
     S("_validate_metrics", ""),
     S("helpers.get_x_tenant_or_tenant_id", "_delegate_authorized_roles"),
     S("_metrics_transform", ""),
     S("_send_metrics", ""),
     S("res.status", "204") >>

do_post_metrics ==
  << S("helpers.validate_json_content_type", ""),
     S("helpers.validate_authorization", "_post_metrics_authorized_roles"),
     S("helpers.read_http_resource", ""),
     S("_validate_metrics", ""),
     S("helpers.get_x_tenant_or_tenant_id", "_delegate_authorized_roles"),
     S("_metrics_transform", ""),
     S("_send_metrics", ""),
     S("res.status", "204") >>

\* the tenant resolved as on POST
do_get_metrics_delegating ==
  << S("helpers.validate_authorization", "_default_authorized_roles"),
     S("helpers.get_x_tenant_or_tenant_id", "_delegate_authorized_roles"),
     S("helpers.get_query_name", "optional"),
     S("helpers.validate_query_name", ""),
     S("helpers.get_query_dimensions", ""),
     S("helpers.validate_query_dimensions", ""),
     S("helpers.get_query_param", "offset"),
     S("helpers.get_limit", ""),
     S("_list_metrics", ""),
     S("res.body", ""),
     S("res.status", "200") >>

\* the status set before the repository is asked
do_get_metrics_status_first ==
  << S("helpers.validate_authorization", "_default_authorized_roles"),
     S("helpers.get_tenant_id", ""),
     S("helpers.get_query_name", "optional"),
     S("helpers.validate_query_name", ""),
     S("helpers.get_query_dimensions", ""),
     S("helpers.validate_query_dimensions", ""),
     S("helpers.get_query_param", "offset"),
     S("helpers.get_limit", ""),
     S("res.status", "200"),
     S("_list_metrics", ""),
     S("res.body", "") >>

do_get_metrics ==
  << S("helpers.validate_authorization", "_default_authorized_roles"),
     S("helpers.get_tenant_id", ""),
     S("helpers.get_query_name", "optional"),
     S("helpers.validate_query_name", ""),
     S("helpers.get_query_dimensions", ""),
     S("helpers.validate_query_dimensions", ""),
     S("helpers.get_query_param", "offset"),
     S("helpers.get_limit", ""),
     S("_list_metrics", ""),
     S("res.body", ""),
     S("res.status", "200") >>

do_get_measurements ==
  << S("helpers.validate_authorization", "_default_authorized_roles"),
     S("helpers.get_tenant_id", ""),
     S("helpers.get_query_name", "required"),
     S("helpers.validate_query_name", ""),
     S("helpers.get_query_dimensions", ""),
     S("helpers.validate_query_dimensions", ""),
     S("helpers.get_query_starttime_timestamp", ""),
     S("helpers.get_query_endtime_timestamp", "optional"),
     S("helpers.get_query_param", "offset"),
     S("helpers.get_limit", ""),
     S("helpers.get_query_param", "merge_metrics"),
     S("_get_boolean_merge_metrics_flag", ""),
     S("_measurement_list", ""),
     S("res.body", ""),
     S("res.status", "200") >>

do_get_metric_names ==
  << S("helpers.validate_authorization", "_default_authorized_roles"),
     S("helpers.get_tenant_id", ""),
     S("helpers.get_query_dimensions", ""),
     S("helpers.validate_query_dimensions", ""),
     S("helpers.get_query_param", "offset"),
     S("helpers.get_limit", ""),
     S("_list_metric_names", ""),
     S("res.body", ""),
     S("res.status", "200") >>

\* statistics and period read before the time range
do_get_statistics_statistics_first ==
  << S("helpers.validate_authorization", "_default_authorized_roles"),
     S("helpers.get_tenant_id", ""),
     S("helpers.get_query_name", "required"),
     S("helpers.validate_query_name", ""),
     S("helpers.get_query_dimensions", ""),
     S("helpers.validate_query_dimensions", ""),
     S("helpers.get_query_statistics", ""),
     S("helpers.get_query_period", ""),
     S("helpers.get_query_starttime_timestamp", ""),
     S("helpers.get_query_endtime_timestamp", "optional"),
     S("helpers.get_query_param", "offset"),
     S("helpers.get_limit", ""),
     S("helpers.get_query_param", "merge_metrics"),
     S("_get_boolean_merge_metrics_flag", ""),
     S("_metric_statistics", ""),
     S("res.body", ""),
     S("res.status", "200") >>

do_get_statistics ==
  << S("helpers.validate_authorization", "_default_authorized_roles"),
     S("helpers.get_tenant_id", ""),
     S("helpers.get_query_name", "required"),
     S("helpers.validate_query_name", ""),
     S("helpers.get_query_dimensions", ""),
     S("helpers.validate_query_dimensions", ""),
     S("helpers.get_query_starttime_timestamp", ""),
     S("helpers.get_query_endtime_timestamp", "optional"),
     S("helpers.get_query_statistics", ""),
     S("helpers.get_query_period", ""),
     S("helpers.get_query_param", "offset"),
     S("helpers.get_limit", ""),
     S("helpers.get_query_param", "merge_metrics"),
     S("_get_boolean_merge_metrics_flag", ""),
     S("_metric_statistics", ""),
     S("res.body", ""),
     S("res.status", "200") >>

\* the routes declared by resource_api.Restify
Handler(op) ==
  CASE op = "POST /v2.0/metrics/" -> do_post_metrics
    [] op = "GET /v2.0/metrics/" -> do_get_metrics
    [] op = "GET /v2.0/metrics/measurements" -> do_get_measurements
    [] op = "GET /v2.0/metrics/names" -> do_get_metric_names
    [] op = "GET /v2.0/metrics/statistics" -> do_get_statistics

\* the locals of a handler before its first statement, and its response
Loc0 ==
  [metrics |-> List(<<>>), tenant_id |-> "", transformed_metrics |-> <<>>,
   name |-> "", dimensions |-> "", start_timestamp |-> "",
   end_timestamp |-> "", statistics |-> "", period |-> "", offset |-> <<>>,
   limit |-> 0, merge_metrics_flag_str |-> <<>>,
   merge_metrics_flag |-> FALSE, result |-> <<>>]

Res0 == [status |-> 0, body |-> <<>>]

\* what one statement does: the locals and response after it, the error it
\* raises, and the calls it made on the queue, the repository, the paginator
Eff(loc, res, err) ==
  [loc |-> loc, res |-> res, err |-> err, sent |-> <<>>, calls |-> <<>>,
   pags |-> <<>>]

Check(x, loc, res) == Eff(loc, res, x.err)

Bind(field, x, loc, res) ==
  IF x.err # NoError THEN Eff(loc, res, x.err)
  ELSE Eff([loc EXCEPT ![field] = x.val], res, NoError)

BindList(x, loc, res) ==
  [loc |-> IF x.out.err = NoError THEN [loc EXCEPT !.result = x.out.val]
           ELSE loc,
   res |-> res, err |-> x.out.err, sent |-> <<>>, calls |-> x.calls,
   pags |-> x.pags]

Exec(step, self, req, loc, res, env) ==
  CASE step.call = "helpers.validate_json_content_type" ->
         Check(validate_json_content_type(req), loc, res)
    [] step.call = "helpers.validate_authorization" ->
         Check(validate_authorization(req, self[step.arg]), loc, res)
    [] step.call = "helpers.read_http_resource" ->
         Bind("metrics", read_http_resource(req), loc, res)
    [] step.call = "_validate_metrics" ->
         Eff(loc, res, _validate_metrics(loc.metrics))
    [] step.call = "helpers.get_x_tenant_or_tenant_id" ->
         Bind("tenant_id", get_x_tenant_or_tenant_id(req, self[step.arg]),
              loc, res)
    [] step.call = "_metrics_transform" ->
         Eff([loc EXCEPT !.transformed_metrics =
                 _metrics_transform(loc.metrics, loc.tenant_id, self._region)],
             res, NoError)
    [] step.call = "_send_metrics" ->
         LET x == _send_metrics(loc.transformed_metrics, env)
         IN [loc |-> loc, res |-> res, err |-> x.err, sent |-> x.sent,
             calls |-> <<>>, pags |-> <<>>]
    [] step.call = "res.status" /\ step.arg = "204" ->
         Eff(loc, [res EXCEPT !.status = 204], NoError)
    [] step.call = "res.status" /\ step.arg = "200" ->
         Eff(loc, [res EXCEPT !.status = 200], NoError)
    [] step.call = "res.body" ->
         Eff(loc, [res EXCEPT !.body = <<dumpit_utf8(loc.result[1])>>],
             NoError)
    [] step.call = "helpers.get_tenant_id" ->
         Bind("tenant_id", get_tenant_id(req), loc, res)
    [] step.call = "helpers.get_query_name" ->
         Bind("name", get_query_name(req, step.arg = "required"), loc, res)
    [] step.call = "helpers.validate_query_name" ->
         Check(validate_query_name(loc.name), loc, res)
    [] step.call = "helpers.get_query_dimensions" ->
         Bind("dimensions", get_query_dimensions(req), loc, res)
    [] step.call = "helpers.validate_query_dimensions" ->
         Check(validate_query_dimensions(loc.dimensions), loc, res)
    [] step.call = "helpers.get_query_starttime_timestamp" ->
         Bind("start_timestamp", get_query_starttime_timestamp(req), loc, res)
    [] step.call = "helpers.get_query_endtime_timestamp" ->
         Bind("end_timestamp",
              get_query_endtime_timestamp(req, step.arg = "required"),
              loc, res)
    [] step.call = "helpers.get_query_statistics" ->
         Bind("statistics", get_query_statistics(req), loc, res)
    [] step.call = "helpers.get_query_period" ->
         Bind("period", get_query_period(req), loc, res)
    [] step.call = "helpers.get_query_param" /\ step.arg = "offset" ->
         Eff([loc EXCEPT !.offset = req.offset], res, NoError)
    [] step.call = "helpers.get_query_param" /\ step.arg = "merge_metrics" ->
         Eff([loc EXCEPT !.merge_metrics_flag_str = req.merge_metrics], res,
             NoError)
    [] step.call = "helpers.get_limit" ->
         Bind("limit", get_limit(req), loc, res)
    [] step.call = "_get_boolean_merge_metrics_flag" ->
         Bind("merge_metrics_flag",
              _get_boolean_merge_metrics_flag(loc.merge_metrics_flag_str),
              loc, res)
    [] step.call = "_list_metrics" ->
         BindList(_list_metrics(self, loc.tenant_id, loc.name, loc.dimensions,
                                req.uri, loc.offset, loc.limit, env),
                  loc, res)
    [] step.call = "_list_metric_names" ->
         BindList(_list_metric_names(self, loc.tenant_id, loc.dimensions,
                                     req.uri, loc.offset, loc.limit, env),
                  loc, res)
    [] step.call = "_measurement_list" ->
         BindList(_measurement_list(self, loc.tenant_id, loc.name,
                                    loc.dimensions, loc.start_timestamp,
                                    loc.end_timestamp, req.uri, loc.offset,
                                    loc.limit, loc.merge_metrics_flag, env),
                  loc, res)
    [] step.call = "_metric_statistics" ->
         BindList(_metric_statistics(self, loc.tenant_id, loc.name,
                                     loc.dimensions, loc.start_timestamp,
                                     loc.end_timestamp, loc.statistics,
                                     loc.period, req.uri, loc.offset,
                                     loc.limit, loc.merge_metrics_flag, env),
                  loc, res)

\* a handler that keeps the tenant it resolved on self
SelfAfter_keep_tenant(step, self, loc) ==
  IF step.call = "helpers.get_x_tenant_or_tenant_id"
  THEN [self EXCEPT !._region = loc.tenant_id]
  ELSE self

\* the assignments the handlers make to attributes of self: none
SelfAfter(step, self, loc) == self

(***************************************************************************)
(* Requests.                                                               *)
(***************************************************************************)
MaxBatch == 2

MaxLimit == 2

MaxRows == 2

NumSlots == 2

Text(n) == PyVal("unicode", n)

JInt == PyVal("int", 0)

JLong == PyVal("long", 0)

JFloat == PyVal("float", 0)

JBool == PyVal("bool", 0)

Metric(name, timestamp, value, dimensions) ==
  [type |-> "dict", name |-> name, timestamp |-> timestamp, value |-> value,
   dimensions |-> dimensions]

\* a JSON string where a metric object is expected
NonDictMetric ==
  [type |-> "unicode", name |-> Missing, timestamp |-> Missing,
   value |-> Missing, dimensions |-> Missing]

Dim(klen, v) == <<Text(klen), v>>

mValid ==
  Metric(Text(MaxNameLen), JInt, JFloat,
         PyDict(<<Dim(MaxDimLen, Text(MaxDimLen))>>))

mName65 ==
  Metric(Text(MaxNameLen + 1), JInt, JFloat,
         PyDict(<<Dim(MaxDimLen, Text(MaxDimLen))>>))

mBoolTimestamp == Metric(Text(8), JBool, JFloat, Missing)

mNoValue == Metric(Text(8), JInt, Missing, Missing)

MetricSamples == {mValid, mName65, mBoolTimestamp, mNoValue}

SeqsUpTo(X, n) == UNION {[1..k -> X] : k \in 0..n}

Bodies ==
  {Single(m) : m \in MetricSamples}
    \cup {List(ms) : ms \in SeqsUpTo(MetricSamples, MaxBatch)}

POST == "POST /v2.0/metrics/"

GET_METRICS == "GET /v2.0/metrics/"

GET_MEASUREMENTS == "GET /v2.0/metrics/measurements"

GET_NAMES == "GET /v2.0/metrics/names"

GET_STATISTICS == "GET /v2.0/metrics/statistics"

ReadOps == {GET_METRICS, GET_MEASUREMENTS, GET_NAMES, GET_STATISTICS}

BaseReq ==
  [op |-> "", uri |-> "", content_type_json |-> TRUE, roles |-> {},
   x_tenant_id |-> "t1", q_tenant_id |-> <<>>, body_wellformed |-> TRUE,
   body |-> List(<<>>), name |-> "absent", dimensions |-> "absent",
   start_time |-> "absent", end_time |-> "absent", statistics |-> "absent",
   period |-> "absent", offset |-> <<>>, limit |-> <<>>,
   merge_metrics |-> <<>>]

RoleSets ==
  {{"delegate"}, {"user"}, {"agent"}, {"agent", "delegate"},
   {"user", "delegate"}}

ReadRoleSets == {{"delegate"}, {"user"}, {"user", "delegate"}}

TenantParams == {<<>>, <<"t2">>}

Limits == {<<>>} \cup {<<n>> : n \in 0..MaxLimit}

Offsets == {<<>>, <<"cursor">>}

MergeParams == {<<>>, <<"true">>, <<"junk">>}

PostRequests ==
  {[BaseReq EXCEPT !.op = POST, !.uri = POST, !.content_type_json = c,
                   !.roles = ro, !.q_tenant_id = q, !.body = b] :
     c \in BOOLEAN, ro \in RoleSets, q \in TenantParams, b \in Bodies}
    \cup {[BaseReq EXCEPT !.op = POST, !.uri = POST, !.roles = ro,
                          !.body_wellformed = FALSE] : ro \in RoleSets}

MetricsRequests ==
  {[BaseReq EXCEPT !.op = GET_METRICS, !.uri = GET_METRICS, !.roles = ro,
                   !.q_tenant_id = q, !.name = n, !.dimensions = d,
                   !.offset = o, !.limit = l] :
     ro \in ReadRoleSets, q \in TenantParams,
     n \in {"absent", "valid", "invalid"}, d \in {"absent", "invalid"},
     o \in Offsets, l \in Limits}

NamesRequests ==
  {[BaseReq EXCEPT !.op = GET_NAMES, !.uri = GET_NAMES, !.roles = ro,
                   !.q_tenant_id = q, !.dimensions = d, !.offset = o,
                   !.limit = l] :
     ro \in ReadRoleSets, q \in TenantParams, d \in {"valid", "invalid"},
     o \in Offsets, l \in Limits}

MeasurementsRequests ==
  {[BaseReq EXCEPT !.op = GET_MEASUREMENTS, !.uri = GET_MEASUREMENTS,
                   !.roles = ro, !.q_tenant_id = q, !.name = n,
                   !.start_time = st, !.end_time = et, !.offset = o,
                   !.limit = l, !.merge_metrics = mm] :
     ro \in ReadRoleSets, q \in TenantParams, n \in {"absent", "valid"},
     st \in {"absent", "valid"}, et \in {"absent", "invalid"},
     o \in Offsets, l \in Limits, mm \in MergeParams}

StatisticsRequests ==
  {[BaseReq EXCEPT !.op = GET_STATISTICS, !.uri = GET_STATISTICS,
                   !.roles = ro, !.name = n, !.dimensions = d,
                   !.start_time = st, !.statistics = stat, !.period = p,
                   !.limit = l, !.merge_metrics = mm] :
     ro \in {{"delegate"}, {"user"}}, n \in {"absent", "valid"},
     d \in {"absent", "invalid"}, st \in {"absent", "valid"},
     stat \in {"absent", "valid", "invalid"}, p \in {"absent", "valid"},
     l \in Limits, mm \in MergeParams}

Requests ==
  PostRequests \cup MetricsRequests \cup NamesRequests
    \cup MeasurementsRequests \cup StatisticsRequests

\* what the collaborator called by a statement may do
EnvChoices(step) ==
  IF step.call = "_send_metrics"
  THEN {[kind |-> k, n |-> 0] :
          k \in {"ok", "MessageQueueException", "Exception"}}
  ELSE IF step.call \in {"_list_metrics", "_list_metric_names",
                         "_measurement_list", "_metric_statistics"}
  THEN {[kind |-> "rows", n |-> n] : n \in 0..MaxRows}
         \cup {[kind |-> k, n |-> 0] : k \in {"repo_raise", "paginate_raise"}}
  ELSE {NoEnv}

(***************************************************************************)
(* State: the Metrics object, and per request being handled the request,   *)
(* the position in its handler, the handler's locals, the response, the    *)
(* error raised, and the calls made on the collaborators.                  *)
(***************************************************************************)
VARIABLES self, req, phase, pc, loc, res, err, env, sent, calls, pags, vin, vdone, vres

vars == <<self, req, phase, pc, loc, res, err, env, sent, calls, pags, vin, vdone, vres>>

Slots == 1..NumSlots

Init ==
  /\ self = __init__
  /\ req = [r \in Slots |-> BaseReq]
  /\ phase = [r \in Slots |-> "idle"]
  /\ pc = [r \in Slots |-> 1]
  /\ loc = [r \in Slots |-> Loc0]
  /\ res = [r \in Slots |-> Res0]
  /\ err = [r \in Slots |-> NoError]
  /\ env = [r \in Slots |-> NoEnv]
  /\ sent = [r \in Slots |-> <<>>]
  /\ calls = [r \in Slots |-> <<>>]
  /\ pags = [r \in Slots |-> <<>>]
  /\ vin = List(<<>>)
  /\ vdone = FALSE
  /\ vres = NoError

\* a request arrives and is routed to its handler
Receive(r, R) ==
  /\ phase[r] = "idle"
  /\ \E q \in R : req' = [req EXCEPT ![r] = q]
  /\ phase' = [phase EXCEPT ![r] = "running"]
  /\ UNCHANGED <<self, pc, loc, res, err, env, sent, calls, pags, vin, vdone, vres>>

\* the next statement of the handler prog of request r
Advance(r, prog) ==
  /\ phase[r] = "running"
  /\ pc[r] <= Len(prog)
  /\ \E e \in EnvChoices(prog[pc[r]]) :
       LET x == Exec(prog[pc[r]], self, req[r], loc[r], res[r], e)
       IN /\ self' = SelfAfter(prog[pc[r]], self, x.loc)
          /\ loc' = [loc EXCEPT ![r] = x.loc]
          /\ res' = [res EXCEPT ![r] = x.res]
          /\ err' = [err EXCEPT ![r] = x.err]
          /\ env' = [env EXCEPT ![r] = IF e = NoEnv THEN env[r] ELSE e]
          /\ sent' = [sent EXCEPT ![r] = sent[r] \o x.sent]
          /\ calls' = [calls EXCEPT ![r] = calls[r] \o x.calls]
          /\ pags' = [pags EXCEPT ![r] = pags[r] \o x.pags]
          /\ IF x.err # NoError \/ pc[r] = Len(prog)
             THEN phase' = [phase EXCEPT ![r] = "done"] /\ pc' = pc
             ELSE phase' = phase /\ pc' = [pc EXCEPT ![r] = pc[r] + 1]
  /\ UNCHANGED <<req, vin, vdone, vres>>

PostMetrics(r) == req[r].op = POST /\ Advance(r, do_post_metrics)

GetMetrics(r) == req[r].op = GET_METRICS /\ Advance(r, do_get_metrics)

GetMeasurements(r) ==
  req[r].op = GET_MEASUREMENTS /\ Advance(r, do_get_measurements)

GetMetricNames(r) == req[r].op = GET_NAMES /\ Advance(r, do_get_metric_names)

GetStatistics(r) == req[r].op = GET_STATISTICS /\ Advance(r, do_get_statistics)

\* the response has gone to the caller; the request's objects are dropped
Reply(r) ==
  /\ phase[r] = "done"
  /\ req' = [req EXCEPT ![r] = BaseReq]
  /\ phase' = [phase EXCEPT ![r] = "idle"]
  /\ pc' = [pc EXCEPT ![r] = 1]
  /\ loc' = [loc EXCEPT ![r] = Loc0]
  /\ res' = [res EXCEPT ![r] = Res0]
  /\ err' = [err EXCEPT ![r] = NoError]
  /\ env' = [env EXCEPT ![r] = NoEnv]
  /\ sent' = [sent EXCEPT ![r] = <<>>]
  /\ calls' = [calls EXCEPT ![r] = <<>>]
  /\ pags' = [pags EXCEPT ![r] = <<>>]
  /\ UNCHANGED <<self, vin, vdone, vres>>

Handle(r) ==
  \/ PostMetrics(r)
  \/ GetMetrics(r)
  \/ GetMeasurements(r)
  \/ GetMetricNames(r)
  \/ GetStatistics(r)

\* one request at a time, every request of Requests
Next == Receive(1, Requests) \/ Handle(1) \/ Reply(1)

Spec == Init /\ [][Next]_vars

(***************************************************************************)
(* Concurrent requests: every slot handles requests, statement by          *)
(* statement, interleaved with the others.                                 *)
(***************************************************************************)
CRequests ==
  { [BaseReq EXCEPT !.op = POST, !.uri = POST, !.roles = {"agent", "delegate"},
                    !.q_tenant_id = <<"t2">>, !.body = Single(mValid)],
    [BaseReq EXCEPT !.op = POST, !.uri = POST, !.roles = {"user"},
                    !.x_tenant_id = "t3",
                    !.body = List(<<mValid, mName65>>)],
    [BaseReq EXCEPT !.op = GET_METRICS, !.uri = GET_METRICS,
                    !.roles = {"user"}, !.name = "valid", !.limit = <<1>>],
    [BaseReq EXCEPT !.op = GET_MEASUREMENTS, !.uri = GET_MEASUREMENTS,
                    !.roles = {"user"}, !.x_tenant_id = "t3",
                    !.name = "valid", !.start_time = "valid",
                    !.merge_metrics = <<"true">>],
    [BaseReq EXCEPT !.op = GET_NAMES, !.uri = GET_NAMES,
                    !.roles = {"delegate"}],
    [BaseReq EXCEPT !.op = GET_STATISTICS, !.uri = GET_STATISTICS,
                    !.roles = {"user"}, !.name = "valid",
                    !.period = "valid"] }

NextC == \E r \in Slots : Receive(r, CRequests) \/ Handle(r) \/ Reply(r)

SpecC == Init /\ [][NextC]_vars

\* what request q gets when it runs alone on a freshly constructed Metrics,
\* the collaborator doing e: the handler from statement i on
RECURSIVE RunFrom(_, _, _, _, _, _)
RunFrom(prog, i, q, l, rs, e) ==
  IF i > Len(prog)
  THEN [res |-> rs, err |-> NoError, sent |-> <<>>, calls |-> <<>>]
  ELSE LET x == Exec(prog[i], __init__, q, l, rs, e)
       IN IF x.err # NoError
          THEN [res |-> x.res, err |-> x.err, sent |-> x.sent,
                calls |-> x.calls]
          ELSE LET rest == RunFrom(prog, i + 1, q, x.loc, x.res, e)
               IN [rest EXCEPT !.sent = x.sent \o @, !.calls = x.calls \o @]

RunAlone(q, e) == RunFrom(Handler(q.op), 1, q, Loc0, Res0, e)

(***************************************************************************)
(* The validator alone, on every shape of metric.                          *)
(***************************************************************************)
VNames == {Missing, Text(1), Text(MaxNameLen), Text(MaxNameLen + 1), JInt}

VTimestamps == {Missing, JInt, JLong, JFloat, JBool, Text(10)}

VValues == {Missing, JInt, JLong, JFloat, JBool, PyNone}

VDimensions ==
  { Missing, PyNone, PyDict(<<>>),
    PyDict(<<Dim(MaxDimLen, Text(MaxDimLen))>>),
    PyDict(<<Dim(MaxDimLen + 1, Text(1))>>),
    PyDict(<<Dim(1, Text(MaxDimLen + 1))>>),
    PyDict(<<Dim(1, JInt)>>),
    PyDict(<<Dim(1, Text(1)), Dim(2, Text(MaxDimLen + 1))>>) }

VMetrics ==
  {Metric(n, t, v, d) :
     n \in VNames, t \in VTimestamps, v \in VValues, d \in VDimensions}
    \cup {NonDictMetric}

VInputs ==
  {Single(m) : m \in VMetrics}
    \cup {List(ms) :
            ms \in SeqsUpTo(MetricSamples \cup {NonDictMetric}, MaxBatch)}

InitV ==
  /\ Init!1 /\ Init!2 /\ Init!3 /\ Init!4 /\ Init!5 /\ Init!6 /\ Init!7
  /\ Init!8 /\ Init!9 /\ Init!10 /\ Init!11
  /\ vin \in VInputs
  /\ vdone = FALSE
  /\ vres = NoError

ApplyValidate ==
  /\ ~vdone
  /\ vres' = _validate_metrics(vin)
  /\ vdone' = TRUE
  /\ UNCHANGED <<self, req, phase, pc, loc, res, err, env, sent, calls, pags, vin>>

NextV == ApplyValidate

SpecV == InitV /\ [][NextV]_vars

(***************************************************************************)
(* Properties.                                                             *)
(***************************************************************************)
Done(r) == phase[r] = "done"

IsPost(r) == phase[r] # "idle" /\ req[r].op = POST

IsRead(r) == phase[r] # "idle" /\ req[r].op \in ReadOps

\* the statement request r is at (the one that raised, when it is done)
At(r) == Handler(req[r].op)[pc[r]].call

Authorized(q, roles) == q.roles \cap roles # {}

RealClasses == {"int", "long", "float"}

IsText(v, maxlen) == v.type \in TextClasses /\ v.len <= maxlen

\* a metric as the data model describes it
WellFormedMetric(m) ==
  /\ m.type = "dict"
  /\ IsText(m.name, MaxNameLen)
  /\ m.timestamp.type \in RealClasses
  /\ m.value.type \in RealClasses
  /\ \/ m.dimensions = Missing
     \/ /\ m.dimensions.type = "dict"
        /\ \A i \in 1..Len(m.dimensions.items) :
             /\ IsText(m.dimensions.items[i][1], MaxDimLen)
             /\ IsText(m.dimensions.items[i][2], MaxDimLen)

\* C1: the validator accepts a batch (one metric or a list, the empty list
\* included) if and only if every metric in it has a text name of at most 64
\* characters, a real timestamp, a real value and, when dimensions are
\* present, text keys and values of at most 255 characters; every other
\* input, a boolean timestamp or value included, is rejected with 400.
C1_AcceptsIffEveryMetricWellFormed ==
  vdone =>
    /\ (vres = NoError) <=>
         (\A i \in 1..Len(vin.elems) : WellFormedMetric(vin.elems[i]))
    /\ vres # NoError => vres.status = 400

\* the checks of a POST and of a read, each stated on the request alone
PostChecksPass(q) ==
  /\ q.content_type_json
  /\ Authorized(q, CONF.default_authorized_roles \cup CONF.agent_authorized_roles)
  /\ q.body_wellformed
  /\ _validate_metrics(q.body) = NoError
  /\ (q.q_tenant_id = <<>> \/ Authorized(q, CONF.delegate_authorized_roles))

\* the query parameters each read handler reads, in the order it reads them
ParamOrder(op) ==
  CASE op = GET_METRICS -> <<"name", "dimensions", "limit">>
    [] op = GET_NAMES -> <<"dimensions", "limit">>
    [] op = GET_MEASUREMENTS ->
         <<"name", "dimensions", "start_time", "end_time", "limit",
           "merge_metrics">>
    [] op = GET_STATISTICS ->
         <<"name", "dimensions", "start_time", "end_time", "statistics",
           "period", "limit", "merge_metrics">>

ParamFails(q, p) ==
  CASE p = "name" ->
         \/ q.name = "invalid"
         \/ q.name = "absent" /\ q.op \in {GET_MEASUREMENTS, GET_STATISTICS}
    [] p = "dimensions" -> q.dimensions = "invalid"
    [] p = "start_time" -> q.start_time # "valid"
    [] p = "end_time" -> q.end_time = "invalid"
    [] p = "statistics" -> q.statistics # "valid"
    [] p = "period" -> q.period # "valid"
    [] p = "limit" -> q.limit # <<>> /\ q.limit[1] <= 0
    [] p = "merge_metrics" ->
         q.merge_metrics # <<>> /\ q.merge_metrics[1] \notin {"true", "false"}

FailingParams(q) ==
  {i \in 1..Len(ParamOrder(q.op)) : ParamFails(q, ParamOrder(q.op)[i])}

ReadChecksPass(q) ==
  Authorized(q, CONF.default_authorized_roles) /\ FailingParams(q) = {}

\* C2: a queue send or a repository call happens only in a request whose
\* content type, authorization, tenant resolution and every validation and
\* normalization step succeed; a POST whose batch the validator rejects, at
\* any position, sends nothing, never sets 204, and is answered 400.
C2_EffectsOnlyAfterAllChecks ==
  \A r \in Slots :
    /\ sent[r] # <<>> => IsPost(r) /\ PostChecksPass(req[r])
    /\ calls[r] # <<>> => IsRead(r) /\ ReadChecksPass(req[r])
    /\ (IsPost(r) /\ req[r].body_wellformed
          /\ _validate_metrics(req[r].body) # NoError) =>
         /\ sent[r] = <<>>
         /\ res[r].status # 204
         /\ (Done(r) /\ req[r].content_type_json
               /\ Authorized(req[r], self._post_metrics_authorized_roles)) =>
              err[r].status = 400

C2_Witness ==
  \E r \in Slots :
    /\ Done(r) /\ IsPost(r)
    /\ req[r].body = List(<<mValid, mName65>>)
    /\ req[r].content_type_json
    /\ Authorized(req[r], self._post_metrics_authorized_roles)
    /\ At(r) = "_validate_metrics"
    /\ err[r].status = 400
    /\ sent[r] = <<>>

\* C3: a POST that passes its checks hands the whole transformed batch to the
\* queue in exactly one send call, never a second; the handler sets 204
\* exactly when that call succeeds; on a MessageQueueException the response
\* is 503 with a numeric retry-after and 204 is never set.
C3_OneSendNoRetry ==
  \A r \in Slots :
    IsPost(r) =>
      /\ Len(sent[r]) <= 1
      /\ sent[r] # <<>> =>
           /\ Len(sent[r][1]) = Len(req[r].body.elems)
           /\ \A i \in 1..Len(sent[r][1]) :
                sent[r][1][i].metric = req[r].body.elems[i]
      /\ (Done(r) /\ PostChecksPass(req[r])) => Len(sent[r]) = 1
      /\ (err[r] = NoError /\ res[r].status = 204) <=>
           (Done(r) /\ Len(sent[r]) = 1 /\ env[r].kind = "ok")
      /\ env[r].kind = "MessageQueueException" =>
           /\ Done(r)
           /\ Len(sent[r]) = 1
           /\ err[r].status = 503
           /\ err[r].retry_after = RetryAfter
           /\ res[r].status # 204

C3_Witness ==
  \E r \in Slots :
    /\ Done(r) /\ IsPost(r)
    /\ env[r].kind = "MessageQueueException"
    /\ Len(sent[r]) = 1 /\ Len(sent[r][1]) = 2
    /\ err[r].status = 503

\* the field whose check raises in _validate_single_metric
TriggeringField(m) ==
  IF m.name = Missing \/ ~IsText(m.name, MaxNameLen) THEN "name"
  ELSE IF m.timestamp = Missing \/ ~isinstance(m.timestamp, TimestampClasses)
  THEN "timestamp"
  ELSE IF m.value = Missing \/ ~isinstance(m.value, ValueClasses) THEN "value"
  ELSE "dimensions"

FirstRejected(elems) ==
  CHOOSE i \in 1..Len(elems) :
    /\ _validate_single_metric(elems[i]) # NoExc
    /\ \A j \in 1..(i - 1) : _validate_single_metric(elems[j]) = NoExc

\* C4: when the validator rejects a batch, the 400 error that reaches the
\* caller carries the triggering field (name for a name of length 65) of the
\* first violating metric.
C4_BadInputNamesTriggeringField ==
  \A r \in Slots :
    (Done(r) /\ IsPost(r) /\ At(r) = "_validate_metrics" /\ err[r] # NoError)
      => /\ err[r].status = 400
         /\ err[r].description =
              TriggeringField(req[r].body.elems[FirstRejected(req[r].body.elems)])

\* the tenant a request may act for
EffectiveTenant(q) ==
  IF q.op = POST /\ q.q_tenant_id # <<>>
       /\ Authorized(q, CONF.delegate_authorized_roles)
  THEN q.q_tenant_id[1]
  ELSE q.x_tenant_id

\* C5: the tenant a handler resolves differs from the caller's own only on
\* POST, for a caller holding a delegate role who supplied a tenant
\* parameter; every repository call of a read carries the caller's own
\* tenant whatever the query; every transformed metric sent carries the
\* resolved tenant and the configured region.
C5_TenantOnlyDelegatedOnPost ==
  \A r \in Slots :
    /\ (loc[r].tenant_id # "" /\ loc[r].tenant_id # req[r].x_tenant_id) =>
         /\ IsPost(r)
         /\ Authorized(req[r], CONF.delegate_authorized_roles)
         /\ req[r].q_tenant_id # <<>>
    /\ \A i \in 1..Len(calls[r]) :
         /\ calls[r][i].tenant_id = req[r].x_tenant_id
         /\ calls[r][i].region = CONF.region
    /\ \A i \in 1..Len(sent[r]) : \A j \in 1..Len(sent[r][i]) :
         /\ sent[r][i][j].tenant_id = EffectiveTenant(req[r])
         /\ sent[r][i][j].tenant_id = loc[r].tenant_id
         /\ sent[r][i][j].region = CONF.region

C5_Witness ==
  \E r \in Slots :
    /\ Done(r) /\ IsPost(r) /\ res[r].status = 204
    /\ Len(sent[r]) = 1 /\ Len(sent[r][1]) = 2
    /\ sent[r][1][2].tenant_id = "t2"
    /\ req[r].x_tenant_id = "t1"

\* GET /v2.0/metrics/statistics?name=x&period=60 by an authorized caller
IsScenario4(q) ==
  /\ q.op = GET_STATISTICS
  /\ Authorized(q, CONF.default_authorized_roles)
  /\ q.name = "valid" /\ q.period = "valid"
  /\ q.statistics = "absent" /\ q.start_time = "absent"
  /\ q.dimensions = "absent" /\ q.end_time = "absent"
  /\ q.limit = <<>> /\ q.offset = <<>> /\ q.merge_metrics = <<>>

\* C6 as claimed: the statistics request with name and period and no
\* statistics parameter (and nothing else) is answered 400 with an error
\* naming statistics, and the repository is not called.
C6_Scenario4NamesStatistics ==
  \A r \in Slots :
    (Done(r) /\ phase[r] # "idle" /\ IsScenario4(req[r])) =>
      /\ err[r].status = 400
      /\ err[r].description = "statistics"
      /\ calls[r] = <<>>

Least(X) == CHOOSE i \in X : \A j \in X : i <= j

\* C6 as amended: that request is answered 400 naming start_time, the first
\* failing parameter in the handler's order, and the same request with a
\* valid start_time is answered 400 naming statistics; in both the
\* repository is not called.  For every read by an authorized caller with a
\* failing parameter, the one error is 400 and names the first failing
\* parameter in the order the handler reads them, and nothing is called.
C6_FirstFailingParameterNamed ==
  \A r \in Slots :
    /\ (Done(r) /\ phase[r] # "idle" /\ IsScenario4(req[r])) =>
         /\ err[r].status = 400
         /\ err[r].description = "start_time"
         /\ calls[r] = <<>>
    /\ (Done(r) /\ phase[r] # "idle"
          /\ IsScenario4([req[r] EXCEPT !.start_time = "absent"])
          /\ req[r].start_time = "valid") =>
         /\ err[r].status = 400
         /\ err[r].description = "statistics"
         /\ calls[r] = <<>>
    /\ (Done(r) /\ IsRead(r)
          /\ Authorized(req[r], CONF.default_authorized_roles)
          /\ FailingParams(req[r]) # {}) =>
         /\ err[r].status = 400
         /\ err[r].description =
              ParamOrder(req[r].op)[Least(FailingParams(req[r]))]
         /\ calls[r] = <<>>

C6_Witness ==
  \E r \in Slots :
    /\ Done(r) /\ phase[r] # "idle" /\ IsScenario4(req[r])
    /\ At(r) = "helpers.get_query_starttime_timestamp"
    /\ err[r].description = "start_time"

\* C7: on every read, the repository is called once with the request's offset
\* unchanged and the limit the paginator is then given; the envelope returned
\* holds the repository's page and has a next link if and only if that page
\* has exactly limit elements.
C7_NextLinkIffFullPage ==
  \A r \in Slots :
    IsRead(r) =>
      /\ Len(calls[r]) <= 1 /\ Len(pags[r]) <= Len(calls[r])
      /\ calls[r] # <<>> =>
           /\ calls[r][1].offset = req[r].offset
           /\ calls[r][1].limit > 0
           /\ req[r].limit # <<>> => calls[r][1].limit = req[r].limit[1]
      /\ pags[r] # <<>> =>
           /\ pags[r][1].limit = calls[r][1].limit
           /\ pags[r][1].n = Min(env[r].n, calls[r][1].limit)
      /\ res[r].body # <<>> =>
           /\ Len(res[r].body[1].json.elements)
                = Min(env[r].n, calls[r][1].limit)
           /\ (res[r].body[1].json.next # <<>>) <=>
                (Len(res[r].body[1].json.elements) = calls[r][1].limit)
      /\ (Done(r) /\ err[r] = NoError) =>
           res[r].body # <<>> /\ res[r].status = 200

C7_Witness ==
  \E r \in Slots :
    /\ Done(r) /\ IsRead(r) /\ res[r].status = 200
    /\ req[r].limit = <<2>> /\ req[r].offset = <<"cursor">>
    /\ Len(res[r].body[1].json.elements) = 2
    /\ res[r].body[1].json.next # <<>>

\* C8: on every read, an exception raised by the repository call or by the
\* paginator ends the request with a generic 503; the handler sets no status
\* and writes no body, and the exception's message is not in the response.
C8_RepositoryFailureIsGeneric503 ==
  \A r \in Slots :
    (IsRead(r) /\ env[r].kind \in {"repo_raise", "paginate_raise"}) =>
      /\ Done(r)
      /\ err[r].status = 503
      /\ err[r].title = "Service unavailable"
      /\ err[r].description
           \notin {RepositoryException.message, PaginateException.message}
      /\ res[r].status = 0
      /\ res[r].body = <<>>

C8_Witness ==
  \E r \in Slots :
    /\ Done(r) /\ IsRead(r) /\ env[r].kind = "repo_raise"
    /\ Len(calls[r]) = 1
    /\ err[r].status = 503

TenantNotPermitted(q) ==
  q.q_tenant_id # <<>> /\ ~Authorized(q, CONF.delegate_authorized_roles)

PostAuthorized(q) ==
  Authorized(q, CONF.default_authorized_roles \cup CONF.agent_authorized_roles)

BodyRejected(q) == ~q.body_wellformed \/ _validate_metrics(q.body) # NoError

\* C9 as claimed: authorization is the first check and tenant resolution
\* precedes validation, so an unauthorized POST is answered with the
\* authorization error whatever its Content-Type, and a POST with a
\* non-permitted tenant delegation and an invalid body is answered with the
\* tenant error.
C9_AuthorizationFirstTenantBeforeBody ==
  \A r \in Slots :
    (Done(r) /\ IsPost(r)) =>
      /\ ~PostAuthorized(req[r]) => err[r] = HTTPUnauthorized
      /\ (PostAuthorized(req[r]) /\ req[r].content_type_json
            /\ TenantNotPermitted(req[r]) /\ BodyRejected(req[r])) =>
           err[r] = HTTPForbidden

\* C9 as amended: a read checks authorization, then resolves the tenant, then
\* normalizes the query, then calls the repository; a POST checks the
\* Content-Type, then authorization, then reads and validates the body, then
\* resolves the tenant, then transforms and sends.  The first failing step's
\* error is the response: a POST without JSON content type gets 400 even
\* when unauthorized, and an authorized POST with a body the validator
\* rejects gets the validator's 400 even when its tenant delegation is not
\* permitted.
C9_StepOrderOfTheCode ==
  \A r \in Slots :
    /\ (Done(r) /\ IsPost(r)) =>
         /\ ~req[r].content_type_json =>
              err[r] = HTTPBadRequest("Content-Type")
         /\ (req[r].content_type_json /\ ~PostAuthorized(req[r])) =>
              err[r] = HTTPUnauthorized
         /\ (req[r].content_type_json /\ PostAuthorized(req[r])
               /\ BodyRejected(req[r])) =>
              err[r].status = 400 /\ loc[r].tenant_id = ""
         /\ (req[r].content_type_json /\ PostAuthorized(req[r])
               /\ ~BodyRejected(req[r]) /\ TenantNotPermitted(req[r])) =>
              err[r] = HTTPForbidden /\ sent[r] = <<>>
    /\ (Done(r) /\ IsRead(r)) =>
         /\ ~Authorized(req[r], CONF.default_authorized_roles) =>
              err[r] = HTTPUnauthorized /\ loc[r].tenant_id = ""
         /\ (Authorized(req[r], CONF.default_authorized_roles)
               /\ FailingParams(req[r]) # {}) =>
              /\ err[r].status = 400
              /\ loc[r].tenant_id = req[r].x_tenant_id
              /\ calls[r] = <<>>
    /\ (sent[r] # <<>> \/ calls[r] # <<>>) =>
         loc[r].tenant_id = EffectiveTenant(req[r])

C9_Witness ==
  \E r \in Slots :
    /\ Done(r) /\ IsPost(r)
    /\ ~req[r].content_type_json /\ ~PostAuthorized(req[r])
    /\ err[r] = HTTPBadRequest("Content-Type")

\* C10: no handler changes the configuration set at construction, and under
\* every interleaving each finished request has the response, the queue
\* sends and the repository calls it has when it runs alone.
C10_RequestsAreIndependent ==
  /\ self = __init__
  /\ \A r \in Slots :
       Done(r) =>
         [res |-> res[r], err |-> err[r], sent |-> sent[r],
          calls |-> calls[r]] = RunAlone(req[r], env[r])

C10_Witness ==
  /\ Done(1) /\ IsPost(1) /\ res[1].status = 204
  /\ req[1].q_tenant_id = <<"t2">>
  /\ Done(2) /\ IsRead(2) /\ res[2].status = 200

====
